---- MODULE Spec2Model ----
(***************************************************************************)
(* A model of the request handlers of the fastapi-learning repository.     *)
(* Every source file is a module holding its own FastAPI application; a    *)
(* request is served by one handler (path operation function), which the   *)
(* framework calls after validating the inputs and solving the declared    *)
(* dependencies.  The only mutable program state is the module-level dict  *)
(* `items` of src/backend/body-updates.py.                                 *)
(*                                                                         *)
(* JSON values are tagged records: null, str, int, float (floats are kept  *)
(* in tenths, so 50.2 is 502), list.                                       *)
(***************************************************************************)
EXTENDS Integers, Sequences, FiniteSets, TLC

VARIABLES
    items,      \* body-updates.py: the module-level dict `items`
    last,       \* the request served last, with its response
    nwrites,    \* number of PUT/PATCH requests served so far (bounded)
    patches     \* body-updates.py: the PATCH requests the event loop holds

vars == <<items, last, nwrites, patches>>

\* Bound on the number of PUT/PATCH requests in one behaviour.
MaxWrites == 2

----------------------------------------------------------------------------
(* JSON values *)

Null == [t |-> "null"]
Str(s) == [t |-> "str", v |-> s]
IntV(n) == [t |-> "int", v |-> n]
FloatV(tenths) == [t |-> "float", v |-> tenths]
ListV(seq) == [t |-> "list", v |-> seq]

EmptyDict == [f \in {} |-> Null]

\* The numeric value of a JSON number, in tenths.
Num(x) == IF x.t = "int" THEN 10 * x.v ELSE x.v

\* Python's ==  on JSON values: 62 == 62.0, everything else by type and value.
PyEq(a, b) ==
    IF a.t \in {"int", "float"} /\ b.t \in {"int", "float"}
    THEN Num(a) = Num(b)
    ELSE a = b

----------------------------------------------------------------------------
(* src/backend/body-updates.py *)

Fields == {"name", "description", "price", "tax", "tags"}

\* class Item(BaseModel): the declared type of each field.
FieldType(f) ==
    CASE f = "name" -> "Union[str, None]"
      [] f = "description" -> "Union[str, None]"
      [] f = "price" -> "Union[float, None]"
      [] f = "tax" -> "float"
      [] f = "tags" -> "List[str]"

\* class Item(BaseModel): the default of each field.
FieldDefault(f) ==
    CASE f = "name" -> Null
      [] f = "description" -> Null
      [] f = "price" -> Null
      [] f = "tax" -> FloatV(105)
      [] f = "tags" -> ListV(<<>>)

\* Does value v validate as field f of Item?
FieldValid(f, v) ==
    CASE FieldType(f) = "Union[str, None]" -> v.t \in {"str", "null"}
      [] FieldType(f) = "Union[float, None]" -> v.t \in {"int", "float", "null"}
      [] FieldType(f) = "float" -> v.t \in {"int", "float"}
      [] FieldType(f) = "List[str]" -> v.t = "list"

\* The value field f holds after validation: a float field turns an int
\* into a float.
FieldCoerce(f, v) ==
    IF FieldType(f) \in {"Union[float, None]", "float"} /\ v.t = "int"
    THEN FloatV(10 * v.v)
    ELSE v

\* Item(**data) succeeds.
ItemValid(data) ==
    /\ DOMAIN data \subseteq Fields
    /\ \A f \in DOMAIN data : FieldValid(f, data[f])

\* Item(**data): every field validated or defaulted, and the set of fields
\* that were given (pydantic's __fields_set__).
Item(data) ==
    [values |-> [f \in Fields |->
                    IF f \in DOMAIN data THEN FieldCoerce(f, data[f])
                    ELSE FieldDefault(f)],
     fields_set |-> DOMAIN data]

\* jsonable_encoder(model): the dict of all the model's fields.
jsonable_encoder(model) == [f \in Fields |-> model.values[f]]

\* Faulty variant: item.dict() without exclude_unset: every field, defaults included.
dict_all_fields(model) == [f \in Fields |-> model.values[f]]

\* item.dict(exclude_unset=True): only the fields that were set.
dict_exclude_unset(model) == [f \in model.fields_set |-> model.values[f]]

\* stored_item_model.copy(update=update_data)
copy_update(model, update) ==
    [values |-> [f \in Fields |->
                    IF f \in DOMAIN update THEN update[f] ELSE model.values[f]],
     fields_set |-> model.fields_set \cup DOMAIN update]

\* items = {...}: the module-level dict as the module leaves it.
ItemsInit ==
    [k \in {"foo", "bar", "baz"} |->
        CASE k = "foo" -> ("name" :> Str("Foo") @@ "price" :> FloatV(502))
          [] k = "bar" -> ("name" :> Str("Bar")
                           @@ "description" :> Str("The bartenders")
                           @@ "price" :> IntV(62) @@ "tax" :> FloatV(202))
          [] k = "baz" -> ("name" :> Str("Baz") @@ "description" :> Null
                           @@ "price" :> FloatV(502) @@ "tax" :> FloatV(105)
                           @@ "tags" :> ListV(<<>>))]

\* items[item_id] = value
SetItem(d, item_id, value) ==
    [k \in DOMAIN d \cup {item_id} |-> IF k = item_id THEN value ELSE d[k]]

\* The response of a handler that returned `content`.
Ok(content) == [status |-> 200, content |-> content]

\* The framework's response to an exception no handler catches.
InternalServerError(exc) ==
    [status |-> 500, content |-> "Internal Server Error", exc |-> exc]

\* The framework's response to a request that fails validation.
Unprocessable == [status |-> 422, content |-> "validation error"]

\* Faulty variant: GET that writes the validated entry back to the store.
read_item_storing(store, item_id) ==
    IF item_id \notin DOMAIN store
    THEN [store |-> store, resp |-> InternalServerError("KeyError")]
    ELSE [store |-> SetItem(store, item_id,
                            jsonable_encoder(Item(store[item_id]))),
          resp |-> Ok(jsonable_encoder(Item(store[item_id])))]

\* GET /items/{item_id}: a handler result is the new store and the response.
read_item(store, item_id) ==
    IF item_id \notin DOMAIN store
    THEN [store |-> store, resp |-> InternalServerError("KeyError")]
    ELSE [store |-> store,
          resp |-> Ok(jsonable_encoder(Item(store[item_id])))]

\* Faulty variant: PUT that merges the body into the stored entry.
put_update_item_merging(store, item_id, item) ==
    LET old == IF item_id \in DOMAIN store THEN store[item_id] ELSE EmptyDict
        enc == [f \in Fields \cup DOMAIN old |->
                   IF f \in item.fields_set \/ f \notin DOMAIN old
                   THEN item.values[f] ELSE old[f]]
    IN [store |-> SetItem(store, item_id, enc), resp |-> Ok(enc)]

\* PUT /items/{item_id}
put_update_item(store, item_id, item) ==
    LET update_item_encoded == jsonable_encoder(item)
    IN [store |-> SetItem(store, item_id, update_item_encoded),
        resp |-> Ok(update_item_encoded)]

\* PATCH /items/{item_id}
patch_update_item(store, item_id, item) ==
    IF item_id \notin DOMAIN store
    THEN [store |-> store, resp |-> InternalServerError("KeyError")]
    ELSE LET stored_item_data == store[item_id]
             stored_item_model == Item(stored_item_data)
             update_data == dict_exclude_unset(item)
             updated_item == copy_update(stored_item_model, update_data)
         IN [store |-> SetItem(store, item_id, jsonable_encoder(updated_item)),
             resp |-> Ok(jsonable_encoder(updated_item))]

\* Request inputs: two stored ids and one that is not stored.
ItemIds == {"foo", "bar", "qux"}

Bodies ==
    { EmptyDict,
      ("name" :> Str("Barz") @@ "price" :> IntV(3) @@ "description" :> Null),
      ("tax" :> FloatV(77)),
      ("name" :> Null @@ "tags" :> ListV(<<"x">>)),
      ("tax" :> Null) }

\* The entry stored under item_id, or the empty dict with `present` false.
Entry(store, item_id) ==
    IF item_id \in DOMAIN store
    THEN [present |-> TRUE, data |-> store[item_id]]
    ELSE [present |-> FALSE, data |-> EmptyDict]

BU == "body-updates"

BodyUpdatesGet ==
    \E item_id \in ItemIds :
        LET r == read_item(items, item_id)
        IN /\ items' = r.store
           /\ last' = [app |-> BU, method |-> "GET", item_id |-> item_id,
                       body |-> EmptyDict, before |-> Entry(items, item_id),
                       resp |-> r.resp]
           /\ UNCHANGED <<nwrites, patches>>

BodyUpdatesPut ==
    \E item_id \in ItemIds, body \in Bodies :
        /\ nwrites < MaxWrites
        /\ LET r == IF ItemValid(body)
                    THEN put_update_item(items, item_id, Item(body))
                    ELSE [store |-> items, resp |-> Unprocessable]
           IN /\ items' = r.store
              /\ last' = [app |-> BU, method |-> "PUT", item_id |-> item_id,
                          body |-> body, before |-> Entry(items, item_id),
                          resp |-> r.resp]
        /\ nwrites' = nwrites + 1
        /\ UNCHANGED patches

BodyUpdatesPatch ==
    \E item_id \in ItemIds, body \in Bodies :
        /\ nwrites < MaxWrites
        /\ LET r == IF ItemValid(body)
                    THEN patch_update_item(items, item_id, Item(body))
                    ELSE [store |-> items, resp |-> Unprocessable]
           IN /\ items' = r.store
              /\ last' = [app |-> BU, method |-> "PATCH", item_id |-> item_id,
                          body |-> body, before |-> Entry(items, item_id),
                          resp |-> r.resp]
        /\ nwrites' = nwrites + 1
        /\ UNCHANGED patches

----------------------------------------------------------------------------
(* PATCH requests served concurrently.  A request is a task of the event   *)
(* loop: the task is suspended while the body of the request arrives, and  *)
(* tasks are resumed in any order.  `async def update_item` holds no await *)
(* so, once called, it runs to its return without another task running.    *)

\* One task per PATCH request of a behaviour.
Slots == 1..MaxWrites

Idle ==
    [pc |-> "idle", item_id |-> "", body |-> EmptyDict, seen |-> ItemsInit,
     turn |-> 0, resp |-> [status |-> 0]]

\* Faulty variant: the function works on the dict as it was when the request
\* arrived, as it would had it read `items` before a suspension point.
ItemsAtReceive(store, request) == request.seen

\* stored_item_data = items[item_id] reads the dict as it is when the
\* function runs.
ItemsAtCall(store, request) == store

\* The request arrives: its path and body are fixed, the task waits.
PatchReceive ==
    \E s \in Slots, item_id \in ItemIds, body \in Bodies :
        /\ patches[s].pc = "idle"
        /\ patches' = [patches EXCEPT ![s] =
                          [@ EXCEPT !.pc = "receiving", !.item_id = item_id,
                                    !.body = body, !.seen = items]]
        /\ UNCHANGED <<items, last, nwrites>>

\* The task is resumed with the body: the body is validated and
\* update_item runs from its first line to its return.
PatchHandle ==
    \E s \in Slots :
        /\ patches[s].pc = "receiving"
        /\ nwrites < MaxWrites
        /\ LET request == patches[s]
               r == IF ItemValid(request.body)
                    THEN patch_update_item(ItemsAtCall(items, request),
                                           request.item_id, Item(request.body))
                    ELSE [store |-> items, resp |-> Unprocessable]
           IN /\ items' = r.store
              /\ last' = [app |-> BU, method |-> "PATCH",
                          item_id |-> request.item_id, body |-> request.body,
                          before |-> Entry(items, request.item_id),
                          resp |-> r.resp]
              /\ patches' = [patches EXCEPT ![s] =
                                [@ EXCEPT !.pc = "done", !.turn = nwrites + 1,
                                          !.resp = r.resp]]
        /\ nwrites' = nwrites + 1

----------------------------------------------------------------------------
(* What a path operation function or a dependency does: it returns a value *)
(* or raises an exception.                                                 *)

Return(value) == [kind |-> "return", value |-> value]
Raise(exc) == [kind |-> "raise", exc |-> exc]

HTTPException(status_code, detail) ==
    [type |-> "HTTPException", status_code |-> status_code, detail |-> detail]

\* What a client gets from a module that does not compile: Python raises
\* SyntaxError before any statement of the module runs, so no application
\* exists and no HTTP response is produced (status 0).
NoApp == [status |-> 0, content |-> "SyntaxError"]

\* The response of the application of a module, when the module compiles.
Serve(compiles, resp) == IF compiles THEN resp ELSE NoApp

\* FastAPI's default handler of HTTPException: JSON {"detail": detail}.
DefaultHTTPExceptionResponse(exc) ==
    [status |-> exc.status_code, content |-> [detail |-> exc.detail]]

----------------------------------------------------------------------------
(* src/backend/handling-errors.py *)

HE == "handling-errors"

\* The module is not valid Python: the call JSONResponse(status_code=418
\* content=...) lacks the comma between its arguments (and the last
\* docstring of the file is not closed).
HandlingErrorsCompiles == FALSE

\* items = {"foo": "The Foo Wrestlers"}
HEItems == [k \in {"foo"} |-> "The Foo Wrestlers"]

\* GET /v1/items/{item_id}
he_read_item(item_id) ==
    IF item_id \notin DOMAIN HEItems
    THEN Raise(HTTPException(404, "Item not found"))
    ELSE Return([item |-> HEItems[item_id]])

UnicornException(name) == [type |-> "UnicornException", name |-> name]

\* @app.exception_handler(UnicornException); the f-string is kept as its parts.
unicorn_exception_handler(exc) ==
    Return([status |-> 418,
            content |-> [message |->
                <<"Oops! ", exc.name, " did something. There goes a rainbow...">>]])

\* GET /v1/unicorns/{name}
read_unicorn(name) ==
    IF name = "yolo"
    THEN Raise(UnicornException(name))
    ELSE Return([unicorn_name |-> name])

\* @app.exception_handler(StarletteHTTPException): the handler reads
\* ext.status_code, and no name `ext` exists: it raises NameError.
http_exception_handler(exc) == Raise([type |-> "NameError", name |-> "ext"])

\* GET /v3/items/{item_id}
read_item_v3(item_id) ==
    IF item_id = 3
    THEN Raise(HTTPException(418, "Nope! I don't like 3."))
    ELSE Return([item_id |-> item_id])

\* The handler the application has installed for an exception.
HEExceptionHandler(exc) ==
    CASE exc.type = "UnicornException" -> unicorn_exception_handler(exc)
      [] exc.type = "HTTPException" -> http_exception_handler(exc)

\* The response of the application to what a path operation function did.
HEResponse(outcome) ==
    IF outcome.kind = "return"
    THEN Ok(outcome.value)
    ELSE LET h == HEExceptionHandler(outcome.exc)
         IN IF h.kind = "return" THEN h.value
            ELSE InternalServerError(h.exc.type)

HENames == {"foo", "bar"}
UnicornNames == {"yolo", "bob"}
ItemNumbers == {2, 3, 4}

HandlingErrorsReadItem ==
    \E item_id \in HENames :
        /\ last' = [app |-> HE, path |-> "/v1/items/{item_id}",
                    item_id |-> item_id,
                    resp |-> Serve(HandlingErrorsCompiles,
                                   HEResponse(he_read_item(item_id)))]
        /\ UNCHANGED <<items, nwrites, patches>>

HandlingErrorsReadUnicorn ==
    \E name \in UnicornNames :
        /\ last' = [app |-> HE, path |-> "/v1/unicorns/{name}", name |-> name,
                    resp |-> Serve(HandlingErrorsCompiles,
                                   HEResponse(read_unicorn(name)))]
        /\ UNCHANGED <<items, nwrites, patches>>

HandlingErrorsReadItemV3 ==
    \E item_id \in ItemNumbers :
        /\ last' = [app |-> HE, path |-> "/v3/items/{item_id}",
                    item_id |-> item_id,
                    resp |-> Serve(HandlingErrorsCompiles,
                                   HEResponse(read_item_v3(item_id)))]
        /\ UNCHANGED <<items, nwrites, patches>>

----------------------------------------------------------------------------
(* Dependencies: src/backend/dependencies-in-path-operation-decorators.py  *)
(* and src/backend/global-dependencies.py                                  *)

DD == "dependencies-in-path-operation-decorators"
GD == "global-dependencies"

SecretToken == "fake-super-secret-token"
SecretKey == "fake-super-secret-key"

\* async def verify_token(x_token): returns nothing (None).
verify_token(x_token) ==
    IF x_token # SecretToken
    THEN Raise(HTTPException(400, "X-Token header invalid"))
    ELSE Return("None")

\* Faulty variant: verify_key without its check.
verify_key_unchecked(x_key) == Return(x_key)

\* async def verify_key(x_key): returns x_key.
verify_key(x_key) ==
    IF x_key # SecretKey
    THEN Raise(HTTPException(400, "X-Key header invalid"))
    ELSE Return(x_key)

\* Depends(f) in a decorator or in FastAPI(dependencies=[...]): the function,
\* the header its parameter reads, and no parameter name to bind its value to.
DependsVerifyToken == [call |-> "verify_token", header |-> "x-token", name |-> "none"]
DependsVerifyKey == [call |-> "verify_key", header |-> "x-key", name |-> "none"]

\* dependencies=[Depends(verify_token), Depends(verify_key)]
Dependencies == <<DependsVerifyToken, DependsVerifyKey>>

CallDependency(dep, arg) ==
    CASE dep.call = "verify_token" -> verify_token(arg)
      [] dep.call = "verify_key" -> verify_key(arg)

\* The framework keeps a dependency's value for the path operation function
\* only when the dependency is declared as a parameter of it.
BindValue(values, dep, value) ==
    IF dep.name = "none" THEN values
    ELSE [k \in DOMAIN values \cup {dep.name} |->
             IF k = dep.name THEN value ELSE values[k]]

\* The framework solves the dependencies in the order declared: a dependency
\* whose header is missing is not called and gives a validation error; one
\* that raises ends the request at once.
RECURSIVE SolveDependencies(_, _, _)
SolveDependencies(deps, headers, acc) ==
    IF deps = <<>> THEN acc
    ELSE LET dep == Head(deps)
         IN IF dep.header \notin DOMAIN headers
            THEN SolveDependencies(Tail(deps), headers,
                    [acc EXCEPT !.errors = @ \cup {dep.header}])
            ELSE LET r == CallDependency(dep, headers[dep.header])
                     ran == Append(acc.ran, dep.call)
                 IN IF r.kind = "raise"
                    THEN [acc EXCEPT !.ran = ran, !.exc = <<r.exc>>]
                    ELSE SolveDependencies(Tail(deps), headers,
                            [acc EXCEPT !.ran = ran,
                                        !.returned = Append(@, r.value),
                                        !.values = BindValue(@, dep, r.value)])

NothingSolved ==
    [ran |-> <<>>, exc |-> <<>>, errors |-> {}, returned |-> <<>>,
     values |-> EmptyDict]

\* async def read_items() of dependencies-in-path-operation-decorators.py
dd_read_items == Return(<<[item |-> "Foo"], [item |-> "Bar"]>>)

\* async def read_items() of global-dependencies.py
gd_read_items == Return(<<[item |-> "Notebook"], [item |-> "Pens"]>>)

\* async def read_users() of global-dependencies.py
gd_read_users == Return(<<[username |-> "Juneau"], [username |-> "Lupe"]>>)

\* A request to a path operation with dependencies: the functions that ran,
\* in order, the keyword arguments of the path operation function, the values
\* the dependencies returned, and the response.
PathOperation(deps, headers, name, outcome) ==
    LET s == SolveDependencies(deps, headers, NothingSolved)
    IN IF s.exc # <<>>
       THEN [ran |-> s.ran, kwargs |-> EmptyDict, returned |-> s.returned,
             resp |-> DefaultHTTPExceptionResponse(s.exc[1])]
       ELSE IF s.errors # {}
       THEN [ran |-> s.ran, kwargs |-> EmptyDict, returned |-> s.returned,
             resp |-> Unprocessable]
       ELSE [ran |-> Append(s.ran, name), kwargs |-> s.values,
             returned |-> s.returned, resp |-> Ok(outcome.value)]

\* What a module that does not compile runs: nothing.
NothingRan ==
    [ran |-> <<>>, kwargs |-> EmptyDict, returned |-> <<>>, resp |-> NoApp]

\* The module compiles.
DependenciesInDecoratorsCompiles == TRUE

\* The module is not valid Python: `from fastapi import Depends, FastAPI,
\* Header HTTPException` lacks a comma.
GlobalDependenciesCompiles == FALSE

HeaderValues(secret) == {secret, "wrong"}

\* The X-Token and X-Key headers of a request: each absent, right or wrong.
HeaderSets ==
    UNION { [hs -> HeaderValues(SecretToken) \cup HeaderValues(SecretKey)] :
            hs \in SUBSET {"x-token", "x-key"} }

Headers ==
    { h \in HeaderSets :
        /\ "x-token" \in DOMAIN h => h["x-token"] \in HeaderValues(SecretToken)
        /\ "x-key" \in DOMAIN h => h["x-key"] \in HeaderValues(SecretKey) }

DependenciesInDecoratorsReadItems ==
    \E headers \in Headers :
        LET r == IF DependenciesInDecoratorsCompiles
                 THEN PathOperation(Dependencies, headers, "read_items",
                                    dd_read_items)
                 ELSE NothingRan
        IN /\ last' = [app |-> DD, path |-> "/v1/items/", headers |-> headers,
                       ran |-> r.ran, kwargs |-> r.kwargs,
                       returned |-> r.returned, resp |-> r.resp]
           /\ UNCHANGED <<items, nwrites, patches>>

GlobalDependenciesReadItems ==
    \E headers \in Headers :
        LET r == IF GlobalDependenciesCompiles
                 THEN PathOperation(Dependencies, headers, "read_items",
                                    gd_read_items)
                 ELSE NothingRan
        IN /\ last' = [app |-> GD, path |-> "/v1/items/", headers |-> headers,
                       ran |-> r.ran, kwargs |-> r.kwargs,
                       returned |-> r.returned, resp |-> r.resp]
           /\ UNCHANGED <<items, nwrites, patches>>

GlobalDependenciesReadUsers ==
    \E headers \in Headers :
        LET r == IF GlobalDependenciesCompiles
                 THEN PathOperation(Dependencies, headers, "read_users",
                                    gd_read_users)
                 ELSE NothingRan
        IN /\ last' = [app |-> GD, path |-> "/v1/users/", headers |-> headers,
                       ran |-> r.ran, kwargs |-> r.kwargs,
                       returned |-> r.returned, resp |-> r.resp]
           /\ UNCHANGED <<items, nwrites, patches>>

----------------------------------------------------------------------------
(* src/backend/dependencies-with-yield.py *)

DY == "dependencies-with-yield"

\* The module is not valid Python: `async dependency_b(...)` lacks `def`.
DependenciesWithYieldCompiles == FALSE

\* Depends(...) in the signatures of dependency_b and dependency_c.
SubDependency(dep) ==
    CASE dep = "dependency_c" -> <<"dependency_b">>
      [] dep = "dependency_b" -> <<"dependency_a">>
      [] dep = "dependency_a" -> <<>>

\* The code before `yield` runs for the sub-dependency first.
RECURSIVE SetupOrder(_)
SetupOrder(dep) ==
    IF SubDependency(dep) = <<>> THEN <<dep>>
    ELSE Append(SetupOrder(SubDependency(dep)[1]), dep)

Reverse(seq) == [i \in 1..Len(seq) |-> seq[Len(seq) + 1 - i]]

\* The code after `yield` (the finally blocks) runs when the framework
\* leaves the context managers it entered, last entered first.
ExitOrder(dep) == Reverse(SetupOrder(dep))

YieldDependencies == {"dependency_a", "dependency_b", "dependency_c"}

\* A request to a path operation that declares Depends(dep).
DependenciesWithYieldRequest ==
    \E dep \in YieldDependencies :
        /\ last' = IF DependenciesWithYieldCompiles
                   THEN [app |-> DY, depends |-> dep,
                         entered |-> SetupOrder(dep), exited |-> ExitOrder(dep),
                         resp |-> Ok("response")]
                   ELSE [app |-> DY, depends |-> dep,
                         entered |-> <<>>, exited |-> <<>>, resp |-> NoApp]
        /\ UNCHANGED <<items, nwrites, patches>>

----------------------------------------------------------------------------
(* Routing: the framework tries the path operations of an application in   *)
(* the order the decorators registered them; the first whose path matches  *)
(* serves the request.  A path is the sequence of its segments.            *)

Lit(s) == [kind |-> "lit", name |-> s]
Param(name) == [kind |-> "param", name |-> name]
\* {name:path}: matches the rest of the path, slashes included.
PathParam(name) == [kind |-> "path", name |-> name]

HasPathParam(template) ==
    Len(template) > 0 /\ template[Len(template)].kind = "path"

\* Does the path match the template of a path operation?
Match(template, path) ==
    /\ IF HasPathParam(template)
       THEN Len(path) >= Len(template) - 1
       ELSE Len(path) = Len(template)
    /\ \A i \in 1..Len(template) :
          CASE template[i].kind = "lit" -> path[i] = template[i].name
            [] template[i].kind = "param" -> path[i] # ""
            [] template[i].kind = "path" -> TRUE

\* The path parameters of a matching path, as the strings of the URL.
PathValues(template, path) ==
    LET idx == {i \in 1..Len(template) : template[i].kind # "lit"}
        at(n) == CHOOSE i \in idx : template[i].name = n
    IN [n \in {template[i].name : i \in idx} |->
           IF template[at(n)].kind = "path"
           THEN SubSeq(path, at(n), Len(path))
           ELSE path[at(n)]]

\* Faulty variant: the path operation declared last wins.
LastMatch(routes, path) ==
    LET S == {i \in 1..Len(routes) : Match(routes[i].template, path)}
    IN IF S = {} THEN 0 ELSE CHOOSE i \in S : \A j \in S : i >= j

\* The index of the first path operation that matches, 0 when none does.
FirstMatch(routes, path) ==
    LET S == {i \in 1..Len(routes) : Match(routes[i].template, path)}
    IN IF S = {} THEN 0 ELSE CHOOSE i \in S : \A j \in S : i <= j

NotFound == [status |-> 404, content |-> [detail |-> "Not Found"]]

\* int(...) of a path segment: the decimal strings used as inputs.
IntLiterals ==
    ("-1" :> -1 @@ "0" :> 0 @@ "1" :> 1 @@ "2" :> 2 @@ "3" :> 3
     @@ "1000" :> 1000 @@ "1001" :> 1001)

IsIntLiteral(raw) == raw \in DOMAIN IntLiterals

----------------------------------------------------------------------------
(* src/path-parameters.py and src/query-parameter.py *)

PP == "path-parameters"
QP == "query-parameter"

\* class ModelName(str, Enum)
ModelNameValues == {"alexnet", "resnet", "lenet"}

ModelName(value) == [enum |-> "ModelName", value |-> value]

\* The path operations of path-parameters.py, in the order declared.
PPRoutes ==
    << [template |-> <<Lit("v1"), Lit("items"), Param("item_id")>>,
        endpoint |-> "read_items"],
       [template |-> <<Lit("v2"), Lit("items"), Param("item_id")>>,
        endpoint |-> "read_item"],
       [template |-> <<Lit("users"), Lit("me")>>, endpoint |-> "read_user_mee"],
       [template |-> <<Lit("users"), Param("user_id")>>, endpoint |-> "read_user"],
       [template |-> <<Lit("users")>>, endpoint |-> "read_users"],
       [template |-> <<Lit("users")>>, endpoint |-> "read_users2"],
       [template |-> <<Lit("models"), Param("model_name")>>,
        endpoint |-> "get_model"],
       [template |-> <<Lit("files"), PathParam("file_path")>>,
        endpoint |-> "read_file"] >>

\* The GET path operations of query-parameter.py declared up to the one for
\* /models/{model_name} (none declared later matches a path it matches).
QPRoutes ==
    << [template |-> <<>>, endpoint |-> "hello_world"],
       [template |-> <<Lit("models"), Param("model_name")>>,
        endpoint |-> "get_model"] >>

\* The type each path operation function declares for a path parameter.
PPParamType(endpoint) ==
    CASE endpoint = "read_item" -> "int"
      [] endpoint = "get_model" -> "ModelName"
      [] OTHER -> "str"

\* Faulty variant: the parameters are not validated.
ParamValidAny(type, raw) == TRUE

\* Does the string of the URL validate as the declared type?
ParamValid(type, raw) ==
    CASE type = "int" -> IsIntLiteral(raw)
      [] type = "ModelName" -> raw \in ModelNameValues
      [] OTHER -> TRUE

\* The value the path operation function receives.
ParamConvert(type, raw) ==
    CASE type = "int" -> IntLiterals[raw]
      [] type = "ModelName" -> ModelName(raw)
      [] OTHER -> raw

\* get_model of path-parameters.py
pp_get_model(model_name) ==
    IF model_name = ModelName("alexnet")
    THEN Return([model_name |-> model_name, message |-> "Deep learning FTW!"])
    ELSE IF model_name.value = "lenet"
    THEN Return([model_name |-> model_name, message |-> "LeCNN all the images"])
    ELSE Return([model_name |-> model_name, message |-> "Have some residuals"])

\* get_model of query-parameter.py
qp_get_model(model_name) ==
    IF model_name = ModelName("alexnet")
    THEN Return([model_name |-> model_name, message |-> "Deep Learning FTW!"])
    ELSE IF model_name.value = "lenet"
    THEN Return([model_name |-> model_name, message |-> "LeCNN all the images"])
    ELSE Return([model_name |-> model_name, message |-> "Have some residuals"])

\* The path operation functions of path-parameters.py.
PPCall(endpoint, kwargs) ==
    CASE endpoint = "read_items" -> Return([item_id |-> kwargs["item_id"]])
      [] endpoint = "read_item" -> Return([item_id |-> kwargs["item_id"]])
      [] endpoint = "read_user_mee" -> Return([user_id |-> "the current user"])
      [] endpoint = "read_user" -> Return([user_id |-> kwargs["user_id"]])
      [] endpoint = "read_users" -> Return(<<"Nigel", "Chewy">>)
      [] endpoint = "read_users2" -> Return(<<"Bean", "Elfo">>)
      [] endpoint = "get_model" -> pp_get_model(kwargs["model_name"])
      [] endpoint = "read_file" -> Return([file_path |-> kwargs["file_path"]])

\* The path operation functions of query-parameter.py.
QPCall(endpoint, kwargs) ==
    CASE endpoint = "hello_world" -> Return([message |-> "hello world"])
      [] endpoint = "get_model" -> qp_get_model(kwargs["model_name"])

\* The JSON of a returned value: an enum member is sent as its value.
JsonContent(endpoint, value) ==
    IF endpoint = "get_model"
    THEN [value EXCEPT !.model_name = @.value]
    ELSE value

\* A GET request: the first matching path operation, its parameters validated
\* and converted, then its function called.
Dispatch(app, routes, path, index) ==
    IF index = 0
    THEN [endpoint |-> "none", ran |-> FALSE, kwargs |-> EmptyDict,
          resp |-> NotFound]
    ELSE LET route == routes[index]
             type == PPParamType(route.endpoint)
             raw == PathValues(route.template, path)
         IN IF \E n \in DOMAIN raw : ~ParamValid(type, raw[n])
            THEN [endpoint |-> route.endpoint, ran |-> FALSE,
                  kwargs |-> EmptyDict, resp |-> Unprocessable]
            ELSE LET kwargs == [n \in DOMAIN raw |-> ParamConvert(type, raw[n])]
                 IN [endpoint |-> route.endpoint, ran |-> TRUE,
                     kwargs |-> kwargs,
                     resp |-> Ok(JsonContent(route.endpoint,
                                 (IF app = PP
                                  THEN PPCall(route.endpoint, kwargs)
                                  ELSE QPCall(route.endpoint, kwargs)).value))]

ModelPaths == {<<"models", m>> : m \in ModelNameValues \cup {"vgg"}}

PPPaths ==
    ModelPaths \cup
    { <<"users", "me">>, <<"users", "3">>, <<"users">>,
      <<"v1", "items", "foo">>, <<"v2", "items", "foo">>, <<"v2", "items", "3">>,
      <<"files", "home", "myfile.txt">>, <<"nothing">> }

QPPaths == ModelPaths \cup { <<>> }

PathParametersGet ==
    \E path \in PPPaths :
        LET r == Dispatch(PP, PPRoutes, path, FirstMatch(PPRoutes, path))
        IN /\ last' = [app |-> PP, path |-> path, endpoint |-> r.endpoint,
                       ran |-> r.ran, kwargs |-> r.kwargs, resp |-> r.resp]
           /\ UNCHANGED <<items, nwrites, patches>>

QueryParameterGet ==
    \E path \in QPPaths :
        LET r == Dispatch(QP, QPRoutes, path, FirstMatch(QPRoutes, path))
        IN /\ last' = [app |-> QP, path |-> path, endpoint |-> r.endpoint,
                       ran |-> r.ran, kwargs |-> r.kwargs, resp |-> r.resp]
           /\ UNCHANGED <<items, nwrites, patches>>

----------------------------------------------------------------------------
(* src/backend/security-first-steps.py and src/backend/get-current-user.py *)

SF == "security-first-steps"
GC == "get-current-user"

\* The Authorization header of a request: absent (the empty sequence), or
\* its words: a scheme and what follows it.
Tokens == {"abc", "johndoe", "xyz"}

Authorizations ==
    {<<>>} \cup {<<"Bearer", t>> : t \in Tokens} \cup {<<"Basic", t>> : t \in Tokens}

\* Faulty variant: a scheme that answers no error and passes what it found.
oauth2_scheme_no_error(authorization) ==
    IF authorization = <<>> THEN Return("None") ELSE Return(authorization[2])

\* oauth2_scheme = OAuth2PasswordBearer(tokenUrl="token"), called with the
\* request: the token of a `Bearer` header, or the 401 error.
oauth2_scheme(authorization) ==
    IF authorization = <<>> \/ authorization[1] # "Bearer"
    THEN Raise(HTTPException(401, "Not authenticated"))
    ELSE Return(authorization[2])

\* read_items of security-first-steps.py
sf_read_items(token) == Return([token |-> token])

\* User(username=token + "fakedecoded", ...): the string is kept as its parts.
fake_decode_token(token) ==
    [username |-> <<token, "fakedecoded">>, email |-> "john@example.com",
     full_name |-> "John Doe", disabled |-> "None"]

\* async def get_current_user(token)
get_current_user(token) ==
    LET user == fake_decode_token(token)
    IN Return(user)

\* read_users_me of get-current-user.py
read_users_me(current_user) == Return(current_user)

\* GET /v1/items/ of security-first-steps.py: token is Depends(oauth2_scheme).
SecurityFirstStepsRequest(authorization) ==
    LET t == oauth2_scheme(authorization)
    IN IF t.kind = "raise"
       THEN [ran |-> <<"oauth2_scheme">>, kwargs |-> EmptyDict,
             resp |-> DefaultHTTPExceptionResponse(t.exc)]
       ELSE [ran |-> <<"oauth2_scheme", "read_items">>,
             kwargs |-> [token |-> t.value],
             resp |-> Ok(sf_read_items(t.value).value)]

\* GET /v1/users/me of get-current-user.py: current_user is
\* Depends(get_current_user), whose token is Depends(oauth2_scheme).
GetCurrentUserRequest(authorization) ==
    LET t == oauth2_scheme(authorization)
    IN IF t.kind = "raise"
       THEN [ran |-> <<"oauth2_scheme">>, kwargs |-> EmptyDict,
             token |-> "none", resp |-> DefaultHTTPExceptionResponse(t.exc)]
       ELSE LET u == get_current_user(t.value)
            IN [ran |-> <<"oauth2_scheme", "get_current_user", "read_users_me">>,
                kwargs |-> [current_user |-> u.value], token |-> t.value,
                resp |-> Ok(read_users_me(u.value).value)]

SecurityFirstStepsReadItems ==
    \E authorization \in Authorizations :
        LET r == SecurityFirstStepsRequest(authorization)
        IN /\ last' = [app |-> SF, path |-> "/v1/items/",
                       authorization |-> authorization, ran |-> r.ran,
                       kwargs |-> r.kwargs, resp |-> r.resp]
           /\ UNCHANGED <<items, nwrites, patches>>

GetCurrentUserReadUsersMe ==
    \E authorization \in Authorizations :
        LET r == GetCurrentUserRequest(authorization)
        IN /\ last' = [app |-> GC, path |-> "/v1/users/me",
                       authorization |-> authorization, ran |-> r.ran,
                       kwargs |-> r.kwargs, token |-> r.token, resp |-> r.resp]
           /\ UNCHANGED <<items, nwrites, patches>>

----------------------------------------------------------------------------
(* src/path-parameters-and-numeric-validations.py and src/path-parameter.py *)

NV == "path-parameters-and-numeric-validations"
PA == "path-parameter"

\* The path operations with number validations: the path parameter is an int
\* declared with Path(...) and its constraints, q is a required str.
NVRoutes ==
    << [template |-> <<Lit("v6"), Lit("items"), Param("item_id")>>,
        endpoint |-> "read_items", param |-> "item_id",
        path |-> [ge |-> 1]],
       [template |-> <<Lit("v7"), Lit("items"), Param("item_id")>>,
        endpoint |-> "read_items", param |-> "item_id",
        path |-> [gt |-> 0, le |-> 1000]] >>

PARoutes ==
    << [template |-> <<Lit("days"), Param("day_id")>>,
        endpoint |-> "read_items", param |-> "day_id",
        path |-> [ge |-> 1]],
       [template |-> <<Lit("nights"), Param("night_id")>>,
        endpoint |-> "read_items", param |-> "night_id",
        path |-> [gt |-> 0, le |-> 1000]] >>

\* Faulty variant: gt checked as ge, lt as le.
NumberValidInclusive(constraints, v) ==
    \A k \in DOMAIN constraints :
        CASE k \in {"gt", "ge"} -> v >= constraints[k]
          [] k \in {"lt", "le"} -> v <= constraints[k]

\* The number validations of Path(gt=, ge=, lt=, le=) on a converted value.
NumberValid(constraints, v) ==
    \A k \in DOMAIN constraints :
        CASE k = "gt" -> v > constraints[k]
          [] k = "ge" -> v >= constraints[k]
          [] k = "lt" -> v < constraints[k]
          [] k = "le" -> v <= constraints[k]

\* The body the four functions share: the id, and q when it is not empty.
read_items_results(param, id, q) ==
    LET results == (param :> id)
    IN IF q # "" THEN Return(results @@ ("q" :> q)) ELSE Return(results)

\* A GET request to one of these applications: the query is the set of its
\* parameters, a function from their names to their strings.
NumericDispatch(routes, path, query, index) ==
    IF index = 0
    THEN [route |-> <<>>, ran |-> FALSE, kwargs |-> EmptyDict, resp |-> NotFound]
    ELSE LET route == routes[index]
             raw == PathValues(route.template, path)[route.param]
             valid == /\ ParamValid("int", raw)
                      /\ NumberValid(route.path, ParamConvert("int", raw))
                      /\ "q" \in DOMAIN query
         IN IF ~valid
            THEN [route |-> route.template, ran |-> FALSE,
                  kwargs |-> EmptyDict, resp |-> Unprocessable]
            ELSE LET id == ParamConvert("int", raw)
                     kwargs == (route.param :> id) @@ ("q" :> query["q"])
                 IN [route |-> route.template, ran |-> TRUE, kwargs |-> kwargs,
                     resp |-> Ok(read_items_results(route.param, id,
                                                    query["q"]).value)]

\* The strings sent for the path parameter, and the query strings.
IdSegments == DOMAIN IntLiterals \cup {"foo"}

Queries == {EmptyDict, ("q" :> ""), ("q" :> "x")}

NVPaths ==
    {<<"v6", "items", s>> : s \in IdSegments} \cup
    {<<"v7", "items", s>> : s \in IdSegments} \cup {<<"v6", "items">>}

PAPaths ==
    {<<"days", s>> : s \in IdSegments} \cup
    {<<"nights", s>> : s \in IdSegments} \cup {<<"days">>}

NumericValidationsGet ==
    \E path \in NVPaths, query \in Queries :
        LET r == NumericDispatch(NVRoutes, path, query, FirstMatch(NVRoutes, path))
        IN /\ last' = [app |-> NV, path |-> path, query |-> query,
                       route |-> r.route, ran |-> r.ran, kwargs |-> r.kwargs,
                       resp |-> r.resp]
           /\ UNCHANGED <<items, nwrites, patches>>

PathParameterGet ==
    \E path \in PAPaths, query \in Queries :
        LET r == NumericDispatch(PARoutes, path, query, FirstMatch(PARoutes, path))
        IN /\ last' = [app |-> PA, path |-> path, query |-> query,
                       route |-> r.route, ran |-> r.ran, kwargs |-> r.kwargs,
                       resp |-> r.resp]
           /\ UNCHANGED <<items, nwrites, patches>>

----------------------------------------------------------------------------

Init ==
    /\ items = ItemsInit
    /\ last = [app |-> "none"]
    /\ nwrites = 0
    /\ patches = [s \in Slots |-> Idle]

Next ==
    \/ BodyUpdatesGet
    \/ BodyUpdatesPut
    \/ BodyUpdatesPatch
    \/ HandlingErrorsReadItem
    \/ HandlingErrorsReadUnicorn
    \/ HandlingErrorsReadItemV3
    \/ DependenciesInDecoratorsReadItems
    \/ GlobalDependenciesReadItems
    \/ GlobalDependenciesReadUsers
    \/ DependenciesWithYieldRequest

Spec == Init /\ [][Next]_vars

\* The applications that keep no state, each request served on its own.
NextRoutes ==
    \/ PathParametersGet
    \/ QueryParameterGet
    \/ SecurityFirstStepsReadItems
    \/ GetCurrentUserReadUsersMe
    \/ NumericValidationsGet
    \/ PathParameterGet

SpecRoutes == Init /\ [][NextRoutes]_vars

\* body-updates.py under PATCH requests that overlap on one event loop.
NextPatch ==
    \/ PatchReceive
    \/ PatchHandle

SpecPatch == Init /\ [][NextPatch]_vars

----------------------------------------------------------------------------
(* Properties *)

Ran(f) == \E i \in DOMAIN last.ran : last.ran[i] = f

\* C1: after a PUT /items/{item_id} that the handler served, the stored entry
\* for item_id holds every field of Item: the body's value (as Python
\* compares values) for a field the body gives, the model default for every
\* field the body omits, whatever was stored before.
C1_PutReplaces ==
    (last.app = BU /\ last.method = "PUT" /\ ItemValid(last.body)) =>
        /\ last.resp.status = 200
        /\ last.item_id \in DOMAIN items
        /\ DOMAIN items[last.item_id] = Fields
        /\ \A f \in Fields :
              IF f \in DOMAIN last.body
              THEN PyEq(items[last.item_id][f], last.body[f])
              ELSE items[last.item_id][f] = FieldDefault(f)

\* C1 witness: PUT on "bar", stored with tax 20.2, with a body that omits tax,
\* has left tax 10.5 stored.
C1_Witness ==
    /\ last.app = BU /\ last.method = "PUT" /\ last.item_id = "bar"
    /\ last.before.present /\ "tax" \in DOMAIN last.before.data
    /\ last.before.data["tax"] = FloatV(202)
    /\ "tax" \notin DOMAIN last.body /\ "name" \in DOMAIN last.body
    /\ items["bar"]["tax"] = FloatV(105)

\* C2: after a PATCH /items/{item_id} on a stored item_id that the handler
\* served, every field the body gives holds the body's value and every field
\* the body omits holds the value the stored entry had for it before.
C2_PatchPartial ==
    (last.app = BU /\ last.method = "PATCH" /\ last.before.present
        /\ ItemValid(last.body)) =>
        /\ last.resp.status = 200
        /\ \A f \in Fields :
              IF f \in DOMAIN last.body
              THEN PyEq(items[last.item_id][f], last.body[f])
              ELSE f \in DOMAIN last.before.data =>
                      PyEq(items[last.item_id][f], last.before.data[f])

\* C2 witness: a PATCH whose body omits tax has kept a stored tax that is not
\* the model default, and has stored the name the body gave.
C2_Witness ==
    /\ last.app = BU /\ last.method = "PATCH" /\ last.before.present
    /\ "tax" \notin DOMAIN last.body /\ "name" \in DOMAIN last.body
    /\ "tax" \in DOMAIN last.before.data
    /\ last.before.data["tax"] # FieldDefault("tax")
    /\ items[last.item_id]["tax"] = last.before.data["tax"]
    /\ items[last.item_id]["name"] = last.body["name"]

\* C3 as stated: no request handler modifies module-level data, so the dict
\* `items` of body-updates.py is always what the module set it to.
C3_NoGlobalState == items = ItemsInit

\* C3 amended: module-level data is modified by the PUT and PATCH handlers of
\* body-updates.py and by no other handler.
C3_OnlyPutPatchModify ==
    [][items' # items =>
          (last'.app = BU /\ last'.method \in {"PUT", "PATCH"})]_vars

\* C3 witness: a GET /items/bar whose response differs from the response the
\* same request gets before any other request: the stored tax was replaced.
C3_Witness ==
    /\ last.app = BU /\ last.method = "GET" /\ last.item_id = "bar"
    /\ last.resp.status = 200
    /\ last.resp.content # jsonable_encoder(Item(ItemsInit["bar"]))

\* C4: GET /v1/items/{item_id} of handling-errors.py answers 200 with
\* {"item": items[item_id]} for a key of items, and 404 with
\* {"detail": "Item not found"} for any other item_id.
C4_ReadItemResponse ==
    (last.app = HE /\ last.path = "/v1/items/{item_id}") =>
        IF last.item_id \in DOMAIN HEItems
        THEN /\ last.resp.status = 200
             /\ last.resp.content = [item |-> HEItems[last.item_id]]
        ELSE /\ last.resp.status = 404
             /\ last.resp.content = [detail |-> "Item not found"]

\* C5: GET /v1/unicorns/yolo answers 418 with
\* {"message": "Opps! yolo did something. There goes a rainbow..."}.
C5_UnicornResponse ==
    (last.app = HE /\ last.path = "/v1/unicorns/{name}" /\ last.name = "yolo") =>
        /\ last.resp.status = 418
        /\ last.resp.content =
              [message |->
                  <<"Opps! ", "yolo", " did something. There goes a rainbow...">>]

\* C6: GET /v3/items/3 answers 418 with the plain text of the exception's
\* detail, and any other integer item_id answers 200 with {"item_id": item_id}.
C6_PlainTextHTTPException ==
    (last.app = HE /\ last.path = "/v3/items/{item_id}") =>
        IF last.item_id = 3
        THEN /\ last.resp.status = 418
             /\ last.resp.content = "Nope! I don't like 3."
        ELSE /\ last.resp.status = 200
             /\ last.resp.content = [item_id |-> last.item_id]

TokenOk(h) == "x-token" \in DOMAIN h /\ h["x-token"] = SecretToken
KeyOk(h) == "x-key" \in DOMAIN h /\ h["x-key"] = SecretKey

\* C7: for GET /v1/items/ with the two decorator dependencies, read_items runs
\* only when X-Token and X-Key hold the secret values; a request with both
\* headers present and one of them wrong is answered 400 with the detail of
\* the dependency that failed; and read_items is called with no argument,
\* whatever the dependencies returned.
C7_DecoratorDependencies ==
    last.app = DD =>
        /\ Ran("read_items") => (TokenOk(last.headers) /\ KeyOk(last.headers))
        /\ (DOMAIN last.headers = {"x-token", "x-key"}
              /\ ~(TokenOk(last.headers) /\ KeyOk(last.headers))) =>
              /\ last.resp.status = 400
              /\ last.resp.content =
                    [detail |-> IF ~TokenOk(last.headers)
                                THEN "X-Token header invalid"
                                ELSE "X-Key header invalid"]
        /\ Ran("read_items") => last.kwargs = EmptyDict

\* C7 witness: a request with both secrets: verify_key returned the key,
\* read_items ran after both dependencies, with no argument.
C7_Witness ==
    /\ last.app = DD
    /\ last.ran = <<"verify_token", "verify_key", "read_items">>
    /\ last.returned = <<"None", SecretKey>>
    /\ last.kwargs = EmptyDict
    /\ last.resp.status = 200

\* C8: on every route of global-dependencies.py the handler runs only after
\* verify_token and verify_key have both passed, it does run then, and a
\* request with both headers present and one of them wrong is answered 400.
C8_GlobalDependencies ==
    last.app = GD =>
        LET handler == IF last.path = "/v1/items/" THEN "read_items"
                       ELSE "read_users"
        IN /\ Ran(handler) <=> (TokenOk(last.headers) /\ KeyOk(last.headers))
           /\ Ran(handler) =>
                 last.ran = <<"verify_token", "verify_key", handler>>
           /\ (DOMAIN last.headers = {"x-token", "x-key"}
                 /\ ~(TokenOk(last.headers) /\ KeyOk(last.headers))) =>
                 last.resp.status = 400

\* C10: a request through the chain dependency_c -> dependency_b ->
\* dependency_a sets up a, b, c and runs the exit code of c, then b, then a.
C10_ExitOrder ==
    (last.app = DY /\ last.depends = "dependency_c") =>
        /\ last.entered = <<"dependency_a", "dependency_b", "dependency_c">>
        /\ last.exited = <<"dependency_c", "dependency_b", "dependency_a">>


\* C12: in path-parameters.py, GET /users/me is served by read_user_mee, with
\* {"user_id": "the current user"}, never by read_user; and GET /users is
\* served by read_users, the first of the two declared, with ["Nigel", "Chewy"].
C12_FirstMatchServes ==
    last.app = PP =>
        /\ last.path = <<"users", "me">> =>
              /\ last.endpoint = "read_user_mee"
              /\ last.resp = Ok([user_id |-> "the current user"])
        /\ last.path = <<"users">> =>
              /\ last.endpoint = "read_users"
              /\ last.resp = Ok(<<"Nigel", "Chewy">>)
        /\ last.endpoint = "read_user" => last.kwargs["user_id"] # "me"

\* C12 witness: GET /users/me was served, by read_user_mee.
C12_Witness ==
    /\ last.app = PP /\ last.path = <<"users", "me">>
    /\ last.ran /\ last.endpoint = "read_user_mee"

\* The message the claim gives for each model name.
C13_Message(value) ==
    CASE value = "alexnet" -> "Deep learning FTW!"
      [] value = "lenet" -> "LeCNN all the images"
      [] value = "resnet" -> "Have some residuals"

\* What C13 says of a GET /models/{model_name}, given the message of alexnet.
C13_Holds(alexnet_message) ==
    LET raw == last.path[2]
    IN IF raw \in ModelNameValues
       THEN /\ last.ran /\ last.endpoint = "get_model"
            /\ last.kwargs["model_name"] = ModelName(raw)
            /\ last.resp =
                  Ok([model_name |-> raw,
                      message |-> IF raw = "alexnet" THEN alexnet_message
                                  ELSE C13_Message(raw)])
       ELSE /\ ~last.ran
            /\ last.resp.status = 422

IsBearer(authorization) == authorization # <<>> /\ authorization[1] = "Bearer"

\* C14: with Depends(oauth2_scheme), the path operation function runs only
\* for a request whose Authorization header is `Bearer` plus a token, and the
\* function that declares the dependency then receives that token as a str;
\* a request without the header, or with a value that is not a Bearer token,
\* is answered 401 and the function does not run.
C14_BearerOnly ==
    last.app \in {SF, GC} =>
        LET handler == IF last.app = SF THEN "read_items" ELSE "read_users_me"
        IN /\ Ran(handler) =>
                 /\ IsBearer(last.authorization)
                 /\ last.authorization[2] \in STRING
                 /\ IF last.app = SF
                    THEN /\ last.kwargs = [token |-> last.authorization[2]]
                         /\ last.resp = Ok([token |-> last.authorization[2]])
                    ELSE /\ last.token = last.authorization[2]
                         /\ last.kwargs["current_user"].username =
                               <<last.authorization[2], "fakedecoded">>
           /\ ~IsBearer(last.authorization) =>
                 /\ last.resp.status = 401
                 /\ ~Ran(handler)

\* C14 witness: read_users_me ran for `Bearer johndoe`, with the user decoded
\* from that token.
C14_Witness ==
    /\ last.app = GC /\ last.authorization = <<"Bearer", "johndoe">>
    /\ Ran("read_users_me")
    /\ last.resp.status = 200
    /\ last.resp.content.username = <<"johndoe", "fakedecoded">>


\* The routes declared with Path(ge=1), and those with Path(gt=0, le=1000).
C15_GeRoutes ==
    { <<Lit("v6"), Lit("items"), Param("item_id")>>,
      <<Lit("days"), Param("day_id")>> }

C15_GtLeRoutes ==
    { <<Lit("v7"), Lit("items"), Param("item_id")>>,
      <<Lit("nights"), Param("night_id")>> }

\* C15: the function of a route declared with Path(ge=1) runs only when the
\* id is an integer >= 1, the function of a route declared with
\* Path(gt=0, le=1000) only when 0 < id <= 1000, and it receives that
\* integer; a request whose id is outside the bounds (or is no integer) is
\* answered with the validation error and the function does not run.
C15_NumericConstraintsGate ==
    (last.app \in {NV, PA} /\ last.route # <<>>) =>
        LET raw == last.path[Len(last.path)]
            param == last.route[Len(last.route)].name
            within ==
                /\ IsIntLiteral(raw)
                /\ IF last.route \in C15_GeRoutes
                   THEN IntLiterals[raw] >= 1
                   ELSE /\ last.route \in C15_GtLeRoutes
                        /\ 0 < IntLiterals[raw]
                        /\ IntLiterals[raw] <= 1000
        IN /\ last.ran => (within /\ last.kwargs[param] = IntLiterals[raw])
           /\ ~within => (~last.ran /\ last.resp = Unprocessable)

\* C15 witness: GET /v7/items/1000?q=x, at the upper bound, ran the function.
C15_Witness ==
    /\ last.app = NV /\ last.path = <<"v7", "items", "1000">>
    /\ last.query = ("q" :> "x")
    /\ last.ran
    /\ last.resp = Ok(("item_id" :> 1000) @@ ("q" :> "x"))


\* The PATCH requests served so far, in the order update_item ran for them,
\* applied one after the other to the dict the module starts with.
RECURSIVE Replay(_)
Replay(k) ==
    IF k = 0
    THEN ItemsInit
    ELSE LET s == CHOOSE t \in Slots : patches[t].turn = k
             request == patches[s]
         IN IF ItemValid(request.body)
            THEN patch_update_item(Replay(k - 1), request.item_id,
                                   Item(request.body)).store
            ELSE Replay(k - 1)

\* The requests that changed the entry of item_id, and those among them
\* that set field f.
Patched(item_id) ==
    {s \in Slots : /\ patches[s].pc = "done"
                   /\ patches[s].item_id = item_id
                   /\ patches[s].resp.status = 200}

Setting(item_id, f) == {s \in Patched(item_id) : f \in DOMAIN patches[s].body}

\* C16: PATCH requests handled concurrently never lose an update: the dict
\* holds what applying the served PATCHes one after the other, in the order
\* their functions ran, gives; and a field of an entry that only one request
\* set holds that request's value.
C16_NoLostUpdate ==
    /\ items = Replay(nwrites)
    /\ \A item_id \in DOMAIN items, f \in Fields :
          \A s \in Setting(item_id, f) :
              Setting(item_id, f) = {s} =>
                  items[item_id][f] = FieldCoerce(f, patches[s].body[f])

\* C16 witness: two PATCHes of "bar" that both arrived before either was
\* served, one setting tax and one setting name, price and description:
\* the entry holds the fields of both.
C16_Witness ==
    /\ patches[1].pc = "done" /\ patches[2].pc = "done"
    /\ patches[1].item_id = "bar" /\ patches[2].item_id = "bar"
    /\ patches[1].seen = ItemsInit /\ patches[2].seen = ItemsInit
    /\ patches[1].body = ("tax" :> FloatV(77))
    /\ DOMAIN patches[2].body = {"name", "price", "description"}
    /\ items["bar"]["tax"] = FloatV(77)
    /\ items["bar"]["name"] = Str("Barz")
    /\ items["bar"]["price"] = FloatV(30)

====
